---- MODULE Spec2Model ----
(***************************************************************************)
(* Token store and refresh coordinator of the Payfirma SDK (AuthService),  *)
(* together with the HttpClient failures it sees and the error classifier  *)
(* it routes them through.                                                 *)
(*                                                                         *)
(* Execution model: JavaScript, one thread.  A step of the model is one    *)
(* run-to-completion turn of the event loop: either a caller invokes a     *)
(* method, which runs synchronously up to its first suspension on the      *)
(* network, or an HTTP exchange settles, which runs the suspended method   *)
(* and every continuation chained on its promise (microtasks) to the end.  *)
(***************************************************************************)
EXTENDS Integers, FiniteSets, Sequences, TLC

(* ------------------------------ bounds --------------------------------- *)
NumCallers == 2
MaxTicks == 1
\* longest key, and deepest nesting, of the objects given to the key-case transformers
MaxKeyLen == 2
MaxDepth == 2

Callers == 1..NumCallers
NoCaller == 0

(* ----------------------------- JS values ------------------------------- *)
Undefined == "undefined"
Truthy(s) == s # Undefined /\ s # ""

TickMs == 60 * 1000

\* expires_in (seconds) a token response may carry
ExpiresInChoices == {300, 360}
\* access_token a token response may carry
ServerAccessTokens == {1, 2}
\* refresh_token a token response may carry
ResponseRefreshTokens == {Undefined, "rtA"}
\* refresh_token arguments a caller may pass to refreshToken()
ArgRefreshTokens == {Undefined, "", "rtB"}
\* credentials an application may restore with setCredentials():
\* access token, refresh token and expiry relative to the current time
RestoredAccessTokens == {100}
RestoredRefreshTokens == {Undefined, "rtB"}
RestoredOffsets == {0 - 60000, 360000}

(* ------------------------------ state ---------------------------------- *)
VARIABLES
  credentials,          \* AuthService.credentials
  tokenRefreshPromise,  \* AuthService.tokenRefreshPromise: owner of the in-flight refresh, or NoCaller
  now,                  \* Date.now(), milliseconds
  pc,                   \* per call: "idle", "awaitHttp", "awaitRefresh"
  op,                   \* per call: the method invoked
  req,                  \* per call: the HTTP request it has on the wire
  waitOn,               \* per call: owner of the refresh promise it awaits
  ret,                  \* per call: what it returned or threw, for the calls that
                        \* completed in the latest turn
  sdk,                  \* PayfirmaSDK: whether constructed, config, environment,
                        \* (history: initializeGrants, the grants of initialize()
                        \* that succeeded since construction or the last revoke,
                        \* counted where issuedBefore is kept)
                        \* initialized, and the config object AuthService holds
  issuedBefore          \* per call (history, kept by SpecFreshness and SpecFacade,
                        \* Off elsewhere): what has happened since its token
                        \* request was put on the wire: "refresh" a refresh
                        \* request was put on the wire and is still in flight,
                        \* "refreshed" such a refresh has succeeded, "revoke" a
                        \* revokeToken() has completed

vars == <<credentials, tokenRefreshPromise, now, pc, op, req, waitOn, ret, sdk, issuedBefore>>

NoCredentials ==
  [present |-> FALSE, access_token |-> 0, refresh_token |-> Undefined, expires_at |-> 0]

NoRequest == [kind |-> "none", refresh_token |-> Undefined, bearer |-> 0]
NoOutcome == [kind |-> "none", status |-> 0, access_token |-> 0, expires_in |-> 0,
              refresh_token |-> Undefined]
NoRet == [op |-> "none"]
\* the history of a call: not kept, emptied, with one more event
Off == {"off"}
Reset(h) == IF h = Off THEN Off ELSE {}
Marked(h, event) == IF h = Off THEN Off ELSE h \cup {event}

\* absent key of a configuration object (for the timeout, a number: NoTimeout)
Absent == "absent"
NoTimeout == 0 - 1
NoConfig == [clientId |-> Absent, clientSecret |-> Absent, timeout |-> NoTimeout,
             sandbox |-> Absent, apiUrls |-> Absent]
NoEnvironment == [name |-> "none", authUrl |-> "none", gatewayUrl |-> "none"]
\* no PayfirmaSDK has been constructed
NoSdk == [constructed |-> FALSE, config |-> NoConfig, environment |-> NoEnvironment,
          initialized |-> FALSE, authConfig |-> NoConfig, initializeGrants |-> 0]

(* --------------------------- typed errors ------------------------------ *)
AuthenticationError(message) ==
  [name |-> "AuthenticationError", message |-> message, statusCode |-> 401]
NetworkError(message) ==
  [name |-> "NetworkError", message |-> message, statusCode |-> 0]
ValidationError(message) ==
  [name |-> "ValidationError", message |-> message, statusCode |-> 400]
PaymentError(message) ==
  [name |-> "PaymentError", message |-> message, statusCode |-> 402]
NotFoundError(message) ==
  [name |-> "NotFoundError", message |-> message, statusCode |-> 404]
RateLimitError(message) ==
  [name |-> "RateLimitError", message |-> message, statusCode |-> 429]
ApiError(message, statusCode) ==
  [name |-> "ApiError", message |-> message, statusCode |-> statusCode]
ConfigurationError(message) ==
  [name |-> "ConfigurationError", message |-> message, statusCode |-> 0]

\* (mutant) the fallback forgets the status of the failure
fromApiResponse_status500(code, message, status) ==
  IF code \in {"AUTHENTICATION_FAILED", "TOKEN_EXPIRED", "INVALID_CREDENTIALS"}
    THEN AuthenticationError(message)
  ELSE IF code \in {"VALIDATION_ERROR", "REQUIRED_FIELD_MISSING", "INVALID_FORMAT"}
    THEN ValidationError(message)
  ELSE IF code \in {"PAYMENT_DECLINED", "PAYMENT_FAILED", "CARD_DECLINED"}
    THEN PaymentError(message)
  ELSE IF code = "RATE_LIMIT_EXCEEDED"
    THEN RateLimitError(message)
  ELSE IF code \in {"TRANSACTION_NOT_FOUND", "CUSTOMER_NOT_FOUND", "PLAN_NOT_FOUND",
                    "INVOICE_NOT_FOUND"}
    THEN NotFoundError(message)
  ELSE ApiError(message, 500)

fromApiResponse(code, message, status) ==
  IF code \in {"AUTHENTICATION_FAILED", "TOKEN_EXPIRED", "INVALID_CREDENTIALS"}
    THEN AuthenticationError(message)
  ELSE IF code \in {"VALIDATION_ERROR", "REQUIRED_FIELD_MISSING", "INVALID_FORMAT"}
    THEN ValidationError(message)
  ELSE IF code \in {"PAYMENT_DECLINED", "PAYMENT_FAILED", "CARD_DECLINED"}
    THEN PaymentError(message)
  ELSE IF code = "RATE_LIMIT_EXCEEDED"
    THEN RateLimitError(message)
  ELSE IF code \in {"TRANSACTION_NOT_FOUND", "CUSTOMER_NOT_FOUND", "PLAN_NOT_FOUND",
                    "INVOICE_NOT_FOUND"}
    THEN NotFoundError(message)
  ELSE ApiError(message, IF status = 0 THEN 500 ELSE status)

(* ------------------------ HttpClient failures -------------------------- *)
\* How an HTTP exchange can end without a 2xx response.
HttpFailures ==
  { [kind |-> "http_error", status |-> 401],
    [kind |-> "network", status |-> 0], [kind |-> "timeout", status |-> 0] }

\* The exception HttpClient.request throws for such an end: a plain Error
\* whose only payload is its message; it has neither .response nor .request.
HttpClientError(f) ==
  [ name |-> IF f.kind = "network" THEN "TypeError" ELSE "Error",
    message |-> IF f.kind = "http_error" THEN "HTTP status"
                ELSE IF f.kind = "timeout" THEN "Request timeout"
                ELSE "fetch failed",
    has_response |-> FALSE, has_request |-> FALSE,
    status |-> 0, data_error |-> Undefined, data_error_description |-> Undefined ]

\* (mutant) a failure without a response is classified as a network error
handleAuthError_networkError(error) ==
  IF error.has_response
    THEN AuthenticationError("Authentication failed: status")
  ELSE NetworkError("Network error during authentication")

handleAuthError(error) ==
  IF error.has_response
    THEN IF Truthy(error.data_error)
           THEN fromApiResponse(error.data_error,
                                IF Truthy(error.data_error_description)
                                  THEN error.data_error_description
                                  ELSE "Authentication failed",
                                error.status)
           ELSE AuthenticationError("Authentication failed: status")
  ELSE IF error.has_request
    THEN NetworkError("Network error during authentication")
  ELSE AuthenticationError("Authentication failed")

(* --------------------------- pure helpers ------------------------------ *)
\* (mutant) a ten-minute buffer
bufferTime_tenMinutes == 10 * 60 * 1000

bufferTime == 5 * 60 * 1000

\* (mutant) any token inside the buffer is reported as refreshable
validateToken_alwaysRefreshable(creds, t) ==
  IF ~creds.present
    THEN [valid |-> FALSE, has_expires_at |-> FALSE, expires_at |-> 0,
          reason |-> "No credentials available", needs_refresh |-> Undefined]
  ELSE IF creds.expires_at - t <= bufferTime
    THEN [valid |-> FALSE, has_expires_at |-> TRUE, expires_at |-> creds.expires_at,
          reason |-> "Token expired or expiring soon", needs_refresh |-> "true"]
  ELSE [valid |-> TRUE, has_expires_at |-> TRUE, expires_at |-> creds.expires_at,
        reason |-> Undefined, needs_refresh |-> Undefined]

\* (mutant) the comparison with the buffer is strict
validateToken_strict(creds, t) ==
  IF ~creds.present
    THEN [valid |-> FALSE, has_expires_at |-> FALSE, expires_at |-> 0,
          reason |-> "No credentials available", needs_refresh |-> Undefined]
  ELSE IF creds.expires_at - t < bufferTime
    THEN [valid |-> FALSE, has_expires_at |-> TRUE, expires_at |-> creds.expires_at,
          reason |-> "Token expired or expiring soon",
          needs_refresh |-> IF Truthy(creds.refresh_token) THEN "true" ELSE "false"]
  ELSE [valid |-> TRUE, has_expires_at |-> TRUE, expires_at |-> creds.expires_at,
        reason |-> Undefined, needs_refresh |-> Undefined]

validateToken(creds, t) ==
  IF ~creds.present
    THEN [valid |-> FALSE, has_expires_at |-> FALSE, expires_at |-> 0,
          reason |-> "No credentials available", needs_refresh |-> Undefined]
  ELSE IF creds.expires_at - t <= bufferTime
    THEN [valid |-> FALSE, has_expires_at |-> TRUE, expires_at |-> creds.expires_at,
          reason |-> "Token expired or expiring soon",
          needs_refresh |-> IF Truthy(creds.refresh_token) THEN "true" ELSE "false"]
  ELSE [valid |-> TRUE, has_expires_at |-> TRUE, expires_at |-> creds.expires_at,
        reason |-> Undefined, needs_refresh |-> Undefined]

\* (mutant) the in-flight handle is never consulted
RefreshInProgress_never(p) == FALSE

\* line 147: is a refresh already in progress?
RefreshInProgress(p) == p # NoCaller

\* (mutant) the handle is released only when the refresh succeeded
RefreshFinally_onlyOnSuccess(p, kind) == IF kind = "ok" THEN NoCaller ELSE p

\* lines 188-190: the refresh's finally block, what the handle becomes
RefreshFinally(p, kind) == NoCaller

\* (mutant) the stored refresh token wins over the argument
TokenToUse_storedFirst(t, creds) ==
  IF creds.present /\ Truthy(creds.refresh_token) THEN creds.refresh_token
  ELSE IF Truthy(t) THEN t
  ELSE Undefined

\* line 151: refreshToken || this.credentials?.refresh_token
TokenToUse(t, creds) ==
  IF Truthy(t) THEN t
  ELSE IF creds.present THEN creds.refresh_token
  ELSE Undefined

\* (mutant) expires_in taken as milliseconds
ClientCredentialsOf_noMillis(data, t) ==
  [present |-> TRUE, access_token |-> data.access_token,
   refresh_token |-> IF Truthy(data.refresh_token) THEN data.refresh_token ELSE Undefined,
   expires_at |-> t + data.expires_in]

\* credentials built from a token response by each grant
ClientCredentialsOf(data, t) ==
  [present |-> TRUE, access_token |-> data.access_token,
   refresh_token |-> IF Truthy(data.refresh_token) THEN data.refresh_token ELSE Undefined,
   expires_at |-> t + data.expires_in * 1000]

AuthorizationCodeOf(data, t) ==
  [present |-> TRUE, access_token |-> data.access_token,
   refresh_token |-> data.refresh_token,
   expires_at |-> t + data.expires_in * 1000]

\* (mutant) the previous expiry is kept when the token is replaced
RefreshedOf_keepsExpiry(data, t) ==
  [present |-> TRUE, access_token |-> data.access_token,
   refresh_token |-> data.refresh_token,
   expires_at |-> IF credentials.present THEN credentials.expires_at
                  ELSE t + data.expires_in * 1000]

RefreshedOf(data, t) ==
  [present |-> TRUE, access_token |-> data.access_token,
   refresh_token |-> data.refresh_token,
   expires_at |-> t + data.expires_in * 1000]

\* (mutant) the credentials are dropped only when the remote revocation succeeded
RevokeFinally_onlyOnSuccess(creds, kind) == IF kind = "ok" THEN NoCredentials ELSE creds

\* revokeToken's finally block: what the stored credentials become
RevokeFinally(creds, kind) == NoCredentials

TokenResponses ==
  { [kind |-> "ok", status |-> 200, access_token |-> a, expires_in |-> e,
     refresh_token |-> r] :
       a \in ServerAccessTokens, e \in ExpiresInChoices, r \in ResponseRefreshTokens }

\* what a call completing after a failed exchange keeps of it: that it failed
\* (the service's catch blocks keep nothing of f but the error they rethrow)
FailureOutcome(f) ==
  [kind |-> "failed", status |-> 0, access_token |-> 0, expires_in |-> 0,
   refresh_token |-> Undefined]

\* a completed call: method, argument, value or error, the refresh promise it
\* awaited (NoCaller if none) and how the HTTP exchange behind it ended
Returned(o, a, value, w, out) ==
  [op |-> o, arg |-> a, status |-> "ok", value |-> value, waited |-> w, outcome |-> out]
Threw(o, a, e, w, out) ==
  [op |-> o, arg |-> a, status |-> "err", error |-> e, waited |-> w, outcome |-> out]

Only(c, r) == [d \in Callers |-> IF d = c THEN r ELSE NoRet]
\* no call completed in this turn
Nothing == [d \in Callers |-> NoRet]

(* ------------------------------- Init ---------------------------------- *)
Init ==
  /\ credentials = NoCredentials
  /\ tokenRefreshPromise = NoCaller
  /\ now = 0
  /\ pc = [c \in Callers |-> "idle"]
  /\ op = [c \in Callers |-> "none"]
  /\ req = [c \in Callers |-> NoRequest]
  /\ waitOn = [c \in Callers |-> NoCaller]
  /\ ret = Nothing
  /\ issuedBefore = [c \in Callers |-> Off]
  /\ sdk = NoSdk

(* ------------------------- synchronous calls --------------------------- *)
CallValidateToken(c) ==
  /\ pc[c] = "idle"
  /\ ret' = Only(c, Returned("validateToken", Undefined, validateToken(credentials, now),
                             NoCaller, NoOutcome))
  /\ UNCHANGED <<credentials, tokenRefreshPromise, now, pc, op, req, waitOn, issuedBefore>>
  /\ UNCHANGED sdk

RestoredCredentials ==
  { [present |-> TRUE, access_token |-> a, refresh_token |-> r, expires_at |-> now + d] :
       a \in RestoredAccessTokens, r \in RestoredRefreshTokens, d \in RestoredOffsets }

CallSetCredentials(c, creds) ==
  /\ pc[c] = "idle"
  /\ credentials' = creds
  /\ ret' = Only(c, Returned("setCredentials", Undefined, creds, NoCaller, NoOutcome))
  /\ UNCHANGED <<tokenRefreshPromise, now, pc, op, req, waitOn, issuedBefore>>
  /\ UNCHANGED sdk

(* ------------------------- resource services --------------------------- *)
\* the methods of the resource services the model follows: one that goes
\* through makeAuthenticatedRequest (PlanService.getPlan), an existence
\* helper built on it (PlanService.planExists) and the two of
\* TerminalService that call the HttpClient themselves
ExistenceHelpers == {"planExists"}
AuthenticatedMethods == {"getPlan"} \cup ExistenceHelpers
DirectMethods == {"getTerminalStatus", "getTerminalDailyTotals"}
ServiceMethods == AuthenticatedMethods \cup DirectMethods

\* error.<field> is present and truthy
Has(error, field) == field \in DOMAIN error /\ error[field] = TRUE

\* handleError of a resource service (the same in every service but for the
\* wording of the messages)
handleError(error) ==
  IF Has(error, "has_response")
    THEN IF Truthy(error.data_error)
           THEN fromApiResponse(error.data_error, "Service error", error.status)
           ELSE fromApiResponse("API_ERROR", "Service error: status", error.status)
  ELSE IF Has(error, "has_request")
    THEN NetworkError("Network error in service")
  ELSE fromApiResponse("UNKNOWN_ERROR", "Unknown error in service", 0)

\* the request a service method puts on the wire; bearer 0: no Authorization header
ApiRequest(m, token) ==
  [kind |-> "api", refresh_token |-> Undefined,
   bearer |-> IF m \in AuthenticatedMethods THEN token ELSE 0]

\* the try/catch of an existence helper around its lookup, whose completion
\* is r: true when the lookup returned, false when it threw an error whose
\* statusCode is 404, the error itself otherwise
existsHelper(r) ==
  IF r.status = "ok" THEN [r EXCEPT !.value = "true"]
  ELSE IF r.error.statusCode = 404
    THEN Returned(r.op, r.arg, "false", r.waited, r.outcome)
  ELSE r

\* what method m completes with when its lookup completes with r
Completion(m, r) == IF m \in ExistenceHelpers THEN existsHelper(r) ELSE r

(* ------------------------------ refresh -------------------------------- *)
\* r is a request for a token (a grant or a refresh)
TokenRequest(r) == r.kind \in {"client_credentials", "authorization_code", "refresh"}

\* refreshToken(t) invoked on behalf of method o by call c, up to the point
\* where it has returned a promise or thrown
refreshToken(c, o, t) ==
  IF RefreshInProgress(tokenRefreshPromise)
    THEN /\ pc' = [pc EXCEPT ![c] = "awaitRefresh"]
         /\ op' = [op EXCEPT ![c] = o]
         /\ waitOn' = [waitOn EXCEPT ![c] = tokenRefreshPromise]
         /\ ret' = Nothing
         /\ UNCHANGED <<tokenRefreshPromise, req, issuedBefore>>
  ELSE IF ~Truthy(TokenToUse(t, credentials))
    THEN /\ ret' = Only(c, Threw(o, t, AuthenticationError("No refresh token available"),
                                 NoCaller, NoOutcome))
         /\ UNCHANGED <<tokenRefreshPromise, pc, op, req, waitOn, issuedBefore>>
  ELSE /\ req' = [req EXCEPT ![c] = [kind |-> "refresh",
                                     refresh_token |-> TokenToUse(t, credentials),
                                     bearer |-> 0]]
       /\ tokenRefreshPromise' = c
       /\ pc' = [pc EXCEPT ![c] = "awaitRefresh"]
       /\ op' = [op EXCEPT ![c] = o]
       /\ waitOn' = [waitOn EXCEPT ![c] = c]
       /\ ret' = Nothing
       /\ issuedBefore' = [d \in Callers |->
                              IF TokenRequest(req[d]) /\ "refreshed" \notin issuedBefore[d]
                                THEN Marked(issuedBefore[d], "refresh")
                                ELSE issuedBefore[d]]

CallRefreshToken(c, t) ==
  /\ pc[c] = "idle"
  /\ refreshToken(c, "refreshToken", t)
  /\ UNCHANGED <<credentials, now>>
  /\ UNCHANGED sdk

CallGetValidToken(c) ==
  /\ pc[c] = "idle"
  /\ LET validation == validateToken(credentials, now) IN
       IF validation.valid
         THEN /\ ret' = Only(c, Returned("getValidToken", Undefined,
                                         credentials.access_token, NoCaller, NoOutcome))
              /\ UNCHANGED <<tokenRefreshPromise, pc, op, req, waitOn, issuedBefore>>
       ELSE IF validation.needs_refresh = "true"
         THEN refreshToken(c, "getValidToken", Undefined)
       ELSE /\ ret' = Only(c, Threw("getValidToken", Undefined,
                                    AuthenticationError(
                                      "No valid token available and cannot refresh"),
                                    NoCaller, NoOutcome))
            /\ UNCHANGED <<tokenRefreshPromise, pc, op, req, waitOn, issuedBefore>>
  /\ UNCHANGED <<credentials, now>>
  /\ UNCHANGED sdk

\* every call suspended on the refresh promise owned by o
Waiters(o) == {c \in Callers : pc[c] = "awaitRefresh" /\ waitOn[c] = o}

\* the waiters of o that go on to a resource request once they hold a token:
\* the service methods suspended in getAuthHeader(), when the refresh succeeded
Proceeding(o, ok) == {c \in Waiters(o) : ok /\ op[c] \in AuthenticatedMethods}

\* the waiters of o resume: a service method sends its request with the
\* token now stored, the other calls complete; the rest of the calls stays
Resume(o, ok) ==
  /\ pc' = [c \in Callers |-> IF c \in Proceeding(o, ok) THEN "awaitHttp"
                               ELSE IF c \in Waiters(o) THEN "idle" ELSE pc[c]]
  /\ op' = [c \in Callers |-> IF c \in Waiters(o) \ Proceeding(o, ok) THEN "none"
                               ELSE op[c]]
  /\ waitOn' = [c \in Callers |-> IF c \in Waiters(o) THEN NoCaller ELSE waitOn[c]]
  /\ req' = [c \in Callers |-> IF c \in Proceeding(o, ok)
                                  THEN ApiRequest(op[c], credentials'.access_token)
                                ELSE IF c = o THEN NoRequest ELSE req[c]]

RefreshSucceeds(o, data) ==
  /\ req[o].kind = "refresh"
  /\ credentials' = RefreshedOf(data, now)
  /\ tokenRefreshPromise' = RefreshFinally(tokenRefreshPromise, data.kind)
  /\ Resume(o, TRUE)
  /\ ret' = [c \in Callers |->
               IF c \in Waiters(o) \ Proceeding(o, TRUE)
                 THEN IF op[c] = "getValidToken"
                        THEN Returned(op[c], Undefined, credentials'.access_token, o, data)
                        ELSE Returned(op[c], Undefined, RefreshedOf(data, now), o, data)
                 ELSE NoRet]
  /\ issuedBefore' = [d \in Callers |->
                         IF d = o THEN Reset(issuedBefore[d])
                         ELSE IF "refresh" \in issuedBefore[d]
                           THEN (issuedBefore[d] \ {"refresh"}) \cup {"refreshed"}
                         ELSE issuedBefore[d]]
  /\ UNCHANGED now
  /\ UNCHANGED sdk

RefreshFails(o, f) ==
  /\ req[o].kind = "refresh"
  /\ tokenRefreshPromise' = RefreshFinally(tokenRefreshPromise, f.kind)
  /\ Resume(o, FALSE)
  /\ ret' = [c \in Callers |->
               IF c \in Waiters(o)
                 THEN Completion(op[c], Threw(op[c], Undefined,
                            IF op[c] \in AuthenticatedMethods
                              THEN handleError(handleAuthError(HttpClientError(f)))
                              ELSE handleAuthError(HttpClientError(f)),
                            o, FailureOutcome(f)))
                 ELSE NoRet]
  /\ issuedBefore' = [d \in Callers |->
                         IF d = o THEN Reset(issuedBefore[d])
                         ELSE issuedBefore[d] \ {"refresh"}]
  /\ UNCHANGED <<credentials, now>>
  /\ UNCHANGED sdk

(* ------------------------------- grants -------------------------------- *)
CallClientCredentialsGrant(c) ==
  /\ pc[c] = "idle"
  /\ op' = [op EXCEPT ![c] = "clientCredentialsGrant"]
  /\ req' = [req EXCEPT ![c] = [kind |-> "client_credentials",
                                refresh_token |-> Undefined, bearer |-> 0]]
  /\ pc' = [pc EXCEPT ![c] = "awaitHttp"]
  /\ ret' = Nothing
  /\ UNCHANGED <<credentials, tokenRefreshPromise, now, waitOn, issuedBefore>>
  /\ UNCHANGED sdk

CallAuthorizationCodeGrant(c) ==
  /\ pc[c] = "idle"
  /\ op' = [op EXCEPT ![c] = "authorizationCodeGrant"]
  /\ req' = [req EXCEPT ![c] = [kind |-> "authorization_code",
                                refresh_token |-> Undefined, bearer |-> 0]]
  /\ pc' = [pc EXCEPT ![c] = "awaitHttp"]
  /\ ret' = Nothing
  /\ UNCHANGED <<credentials, tokenRefreshPromise, now, waitOn, issuedBefore>>
  /\ UNCHANGED sdk

\* the call suspended on its own HTTP exchange completes
Complete(c) ==
  /\ req' = [req EXCEPT ![c] = NoRequest]
  /\ pc' = [pc EXCEPT ![c] = "idle"]
  /\ op' = [op EXCEPT ![c] = "none"]

GrantSucceeds(c, data) ==
  /\ req[c].kind \in {"client_credentials", "authorization_code"}
  /\ credentials' = IF req[c].kind = "client_credentials"
                      THEN ClientCredentialsOf(data, now)
                      ELSE AuthorizationCodeOf(data, now)
  /\ Complete(c)
  /\ ret' = Only(c, Returned(op[c], Undefined,
                             IF op[c] \in {"initialize", "exchangeCodeForToken"}
                               THEN Undefined ELSE credentials',
                             NoCaller, data))
  /\ sdk' = IF op[c] = "initialize"
              THEN [sdk EXCEPT !.initialized = TRUE,
                               !.initializeGrants =
                                  IF issuedBefore[c] = Off \/ "revoke" \in issuedBefore[c]
                                    THEN @ ELSE @ + 1]
            ELSE IF op[c] = "exchangeCodeForToken"
              THEN [sdk EXCEPT !.initialized = TRUE]
            ELSE sdk
  /\ issuedBefore' = [issuedBefore EXCEPT ![c] = Reset(@)]
  /\ UNCHANGED <<tokenRefreshPromise, now, waitOn>>

GrantFails(c, f) ==
  /\ req[c].kind \in {"client_credentials", "authorization_code"}
  /\ Complete(c)
  /\ ret' = Only(c, Threw(op[c], Undefined,
                          IF op[c] = "initialize"
                            THEN ConfigurationError(
                                   "Failed to initialize SDK: Authentication failed")
                            ELSE handleAuthError(HttpClientError(f)),
                          NoCaller, FailureOutcome(f)))
  /\ issuedBefore' = [issuedBefore EXCEPT ![c] = Reset(@)]
  /\ UNCHANGED <<credentials, tokenRefreshPromise, now, waitOn, sdk>>

(* ------------------------------- revoke -------------------------------- *)
\* (mutant) revoke() leaves the SDK marked as initialized
Revoked_keepsFlag(s) == [s EXCEPT !.initializeGrants = 0]

\* sdk.revoke() after revokeToken() has returned: this.initialized = false
Revoked(s) == [s EXCEPT !.initialized = FALSE, !.initializeGrants = 0]

\* the histories once a revokeToken() has completed
RevokeCompleted ==
  [d \in Callers |-> IF TokenRequest(req[d]) THEN Marked(issuedBefore[d], "revoke")
                     ELSE issuedBefore[d]]

CallRevokeToken(c) ==
  /\ pc[c] = "idle"
  /\ IF ~credentials.present
       THEN /\ ret' = Only(c, Returned("revokeToken", Undefined, Undefined, NoCaller,
                                       NoOutcome))
            /\ issuedBefore' = RevokeCompleted
            /\ UNCHANGED <<pc, op, req>>
       ELSE /\ req' = [req EXCEPT ![c] = [kind |-> "revoke", refresh_token |-> Undefined,
                                          bearer |-> credentials.access_token]]
            /\ pc' = [pc EXCEPT ![c] = "awaitHttp"]
            /\ op' = [op EXCEPT ![c] = "revokeToken"]
            /\ ret' = Nothing
            /\ UNCHANGED issuedBefore
  /\ UNCHANGED <<credentials, tokenRefreshPromise, now, waitOn>>
  /\ UNCHANGED sdk

RevokeOutcomes ==
  { [kind |-> "ok", status |-> 200, access_token |-> 0, expires_in |-> 0,
     refresh_token |-> Undefined] } \cup { FailureOutcome(f) : f \in HttpFailures }

\* the DELETE settles with outcome o (a 2xx response or a failure)
RevokeSettles(c, o) ==
  /\ req[c].kind = "revoke"
  /\ credentials' = RevokeFinally(credentials, o.kind)
  /\ Complete(c)
  /\ ret' = Only(c, Returned(op[c], Undefined, Undefined, NoCaller, o))
  /\ issuedBefore' = RevokeCompleted
  /\ sdk' = IF op[c] = "revoke" THEN Revoked(sdk) ELSE sdk
  /\ UNCHANGED <<tokenRefreshPromise, now, waitOn>>

(* ------------------------- environment steps --------------------------- *)
Tick ==
  /\ now + TickMs <= MaxTicks * TickMs
  /\ now' = now + TickMs
  /\ ret' = Nothing
  /\ UNCHANGED <<credentials, tokenRefreshPromise, pc, op, req, waitOn, issuedBefore>>
  /\ UNCHANGED sdk

Next ==
  \/ \E c \in Callers : CallValidateToken(c)
  \/ \E c \in Callers : \E creds \in RestoredCredentials : CallSetCredentials(c, creds)
  \/ \E c \in Callers : \E t \in ArgRefreshTokens : CallRefreshToken(c, t)
  \/ \E c \in Callers : CallGetValidToken(c)
  \/ \E c \in Callers : \E data \in TokenResponses : RefreshSucceeds(c, data)
  \/ \E c \in Callers : \E f \in HttpFailures : RefreshFails(c, f)
  \/ \E c \in Callers : CallClientCredentialsGrant(c)
  \/ \E c \in Callers : CallAuthorizationCodeGrant(c)
  \/ \E c \in Callers : \E data \in TokenResponses : GrantSucceeds(c, data)
  \/ \E c \in Callers : \E f \in HttpFailures : GrantFails(c, f)
  \/ \E c \in Callers : CallRevokeToken(c)
  \/ \E c \in Callers : \E o \in RevokeOutcomes : RevokeSettles(c, o)
  \/ Tick

Spec == Init /\ [][Next]_vars

(***************************************************************************)
(* The SDK facade: construction, updateConfig() and initialize().          *)
(***************************************************************************)
\* the configurations an application may pass to the constructor
ClientIds == {"", "id"}
ClientSecrets == {"", "secret"}
Timeouts == {NoTimeout, 0, 500, 1000, 300000, 300001}
Sandboxes == {Absent, "false", "true"}
\* apiUrls: absent, or an object overriding both base URLs
ApiUrls == {Absent, "custom"}
Configs ==
  [clientId : ClientIds, clientSecret : ClientSecrets, timeout : Timeouts,
   sandbox : Sandboxes, apiUrls : ApiUrls]
\* the partial configurations an application may pass to updateConfig()
PartialConfigs ==
  [clientId : {Absent, "", "id2"}, clientSecret : {Absent},
   timeout : {NoTimeout, 0, 500}, sandbox : Sandboxes, apiUrls : ApiUrls]

\* validateConfig: the message of the ConfigurationError it throws, or "ok"
validateConfig(config) ==
  IF config.clientId \in {Absent, ""} THEN "Client ID is required"
  ELSE IF config.clientSecret \in {Absent, ""} THEN "Client Secret is required"
  ELSE IF /\ config.timeout \notin {NoTimeout, 0}
          /\ (config.timeout < 1000 \/ config.timeout > 300000)
    THEN "Timeout must be between 1000ms and 300000ms"
  ELSE "ok"

\* { ...config, ...newConfig }
Merged(config, newConfig) ==
  [k \in DOMAIN config |->
     IF newConfig[k] = (IF k = "timeout" THEN NoTimeout ELSE Absent)
       THEN config[k] ELSE newConfig[k]]

\* getEnvironment(sandbox), reading the override URLs of config (this.config)
getEnvironment(sandbox, config) ==
  IF sandbox = "true"
    THEN [name |-> "sandbox",
          authUrl |-> IF config.apiUrls = "custom" THEN "https://custom-auth"
                      ELSE "https://sandbox-auth.payfirma.com",
          gatewayUrl |-> IF config.apiUrls = "custom" THEN "https://custom-gateway"
                         ELSE "https://sandbox-apigateway.payfirma.com"]
    ELSE [name |-> "production",
          authUrl |-> IF config.apiUrls = "custom" THEN "https://custom-auth"
                      ELSE "https://auth.payfirma.com",
          gatewayUrl |-> IF config.apiUrls = "custom" THEN "https://custom-gateway"
                         ELSE "https://apigateway.payfirma.com"]

\* new PayfirmaSDK(config)
Construct(c, config) ==
  /\ ~sdk.constructed
  /\ pc[c] = "idle"
  /\ IF validateConfig(config) # "ok"
       THEN /\ ret' = Only(c, Threw("constructor", Undefined,
                                    ConfigurationError(validateConfig(config)),
                                    NoCaller, NoOutcome))
            /\ UNCHANGED sdk
       ELSE /\ sdk' = [constructed |-> TRUE, config |-> config,
                       environment |-> getEnvironment(config.sandbox, config),
                       initialized |-> FALSE, authConfig |-> config,
                       initializeGrants |-> 0]
            /\ ret' = Only(c, Returned("constructor", Undefined, Undefined, NoCaller,
                                       NoOutcome))
  /\ UNCHANGED <<credentials, tokenRefreshPromise, now, pc, op, req, waitOn,
                 issuedBefore>>

\* sdk.updateConfig(newConfig)
CallUpdateConfig(c, newConfig) ==
  /\ sdk.constructed
  /\ pc[c] = "idle"
  /\ LET merged == Merged(sdk.config, newConfig) IN
       IF validateConfig(merged) # "ok"
         THEN /\ ret' = Only(c, Threw("updateConfig", Undefined,
                                      ConfigurationError(validateConfig(merged)),
                                      NoCaller, NoOutcome))
              /\ UNCHANGED sdk
         ELSE /\ sdk' = [sdk EXCEPT !.config = merged,
                                    !.environment =
                                       IF newConfig.sandbox # Absent
                                         THEN getEnvironment(newConfig.sandbox, merged)
                                         ELSE @]
              /\ ret' = Only(c, Returned("updateConfig", Undefined, Undefined, NoCaller,
                                         NoOutcome))
  /\ UNCHANGED <<credentials, tokenRefreshPromise, now, pc, op, req, waitOn,
                 issuedBefore>>

\* sdk.initialize(), up to its suspension on the client-credentials grant
CallInitialize(c) ==
  /\ sdk.constructed
  /\ pc[c] = "idle"
  /\ IF sdk.initialized
       THEN /\ ret' = Only(c, Returned("initialize", Undefined, Undefined, NoCaller,
                                       NoOutcome))
            /\ UNCHANGED <<pc, op, req>>
       ELSE /\ op' = [op EXCEPT ![c] = "initialize"]
            /\ req' = [req EXCEPT ![c] = [kind |-> "client_credentials",
                                          refresh_token |-> Undefined, bearer |-> 0]]
            /\ pc' = [pc EXCEPT ![c] = "awaitHttp"]
            /\ ret' = Nothing
  /\ UNCHANGED <<credentials, tokenRefreshPromise, now, waitOn, sdk, issuedBefore>>

NextSdk ==
  \/ \E c \in Callers : \E config \in Configs : Construct(c, config)
  \/ \E c \in Callers : \E newConfig \in PartialConfigs : CallUpdateConfig(c, newConfig)
  \/ \E c \in Callers : CallInitialize(c)
  \/ \E c \in Callers : \E data \in TokenResponses : GrantSucceeds(c, data)
  \/ \E c \in Callers : \E f \in HttpFailures : GrantFails(c, f)

SpecSdk == Init /\ [][NextSdk]_vars

(***************************************************************************)
(* An application that restores credentials and calls resource services.   *)
(***************************************************************************)
\* how a resource request can end without a 2xx response
ApiFailures ==
  HttpFailures \cup { [kind |-> "http_error", status |-> 404],
                      [kind |-> "http_error", status |-> 500] }

\* the response body of a successful resource request
Entity == "entity"

\* call c invokes service method m: it runs up to its first suspension
CallService(c, m) ==
  /\ pc[c] = "idle"
  /\ IF m \in DirectMethods
       THEN /\ req' = [req EXCEPT ![c] = ApiRequest(m, 0)]
            /\ pc' = [pc EXCEPT ![c] = "awaitHttp"]
            /\ op' = [op EXCEPT ![c] = m]
            /\ ret' = Nothing
            /\ UNCHANGED <<tokenRefreshPromise, waitOn, issuedBefore>>
       ELSE LET validation == validateToken(credentials, now) IN
            IF validation.valid
              THEN /\ req' = [req EXCEPT ![c] = ApiRequest(m, credentials.access_token)]
                   /\ pc' = [pc EXCEPT ![c] = "awaitHttp"]
                   /\ op' = [op EXCEPT ![c] = m]
                   /\ ret' = Nothing
                   /\ UNCHANGED <<tokenRefreshPromise, waitOn, issuedBefore>>
            ELSE IF validation.needs_refresh = "true"
              THEN refreshToken(c, m, Undefined)
            ELSE /\ ret' = Only(c, Completion(m, Threw(m, Undefined,
                                         handleError(AuthenticationError(
                                           "No valid token available and cannot refresh")),
                                         NoCaller, NoOutcome)))
                 /\ UNCHANGED <<tokenRefreshPromise, pc, op, req, waitOn, issuedBefore>>
  /\ UNCHANGED <<credentials, now>>
  /\ UNCHANGED sdk

\* the resource request of c gets a 2xx response
ApiSucceeds(c) ==
  /\ req[c].kind = "api"
  /\ Complete(c)
  /\ ret' = Only(c, Completion(op[c], Returned(op[c], Undefined, Entity, NoCaller,
                             [NoOutcome EXCEPT !.kind = "ok", !.status = 200])))
  /\ UNCHANGED <<credentials, tokenRefreshPromise, now, waitOn, issuedBefore>>
  /\ UNCHANGED sdk

\* the resource request of c fails with f
ApiFails(c, f) ==
  /\ req[c].kind = "api"
  /\ Complete(c)
  /\ ret' = Only(c, Completion(op[c], Threw(op[c], Undefined,
                          IF op[c] \in AuthenticatedMethods
                            THEN handleError(HttpClientError(f))
                            ELSE HttpClientError(f),
                          NoCaller, FailureOutcome(f))))
  /\ UNCHANGED <<credentials, tokenRefreshPromise, now, waitOn, issuedBefore>>
  /\ UNCHANGED sdk

NextService ==
  \/ \E c \in Callers : \E creds \in RestoredCredentials : CallSetCredentials(c, creds)
  \/ \E c \in Callers : \E m \in ServiceMethods : CallService(c, m)
  \/ \E c \in Callers : ApiSucceeds(c)
  \/ \E c \in Callers : \E f \in ApiFailures : ApiFails(c, f)
  \/ \E c \in Callers : \E data \in TokenResponses : RefreshSucceeds(c, data)
  \/ \E c \in Callers : \E f \in HttpFailures : RefreshFails(c, f)
  \/ Tick

SpecService == Init /\ [][NextService]_vars

(***************************************************************************)
(* The states of the token store, as the specification names them.         *)
(***************************************************************************)
HasRefreshToken(creds) == creds.present /\ Truthy(creds.refresh_token)
WithinBuffer(creds, t) == creds.present /\ creds.expires_at - t <= 5 * 60 * 1000
StateValid(creds, t) == creds.present /\ creds.expires_at - t > 5 * 60 * 1000
StateExpiringSoon(creds, t) == WithinBuffer(creds, t) /\ HasRefreshToken(creds)
StateExpiredNoRefresh(creds, t) == WithinBuffer(creds, t) /\ ~HasRefreshToken(creds)

(***************************************************************************)
(* What a step is, read off the calls' positions before and after it.      *)
(***************************************************************************)
\* the calls whose refresh request is on the wire
RefreshRequests == {c \in Callers : req[c].kind = "refresh"}
\* call c invokes method m in this step
Called(c, m) ==
  /\ pc[c] = "idle"
  /\ ret'[c].op = m \/ (pc'[c] # "idle" /\ op'[c] = m)
\* the refresh request of o settles in this step, and with a 2xx response
RefreshSettles(o) == req[o].kind = "refresh" /\ req'[o].kind # "refresh"
RefreshDelivers(o) == RefreshSettles(o) /\ ret'[o].outcome.kind = "ok"
\* the grant request of c settles with a 2xx response in this step
GrantDelivers(c) ==
  /\ req[c].kind \in {"client_credentials", "authorization_code"}
  /\ req'[c].kind = "none"
  /\ ret'[c].outcome.kind = "ok"

(* ------------------------------- C1 ------------------------------------ *)
\* C1: getValidToken() calls made while the store is ExpiringSoon share one
\* refresh request: after each such call exactly one refresh request is on
\* the wire and the call awaits it; when that request settles, every
\* suspended getValidToken() call completes with its outcome, the delivered
\* access token on success and one common error on failure.
C1_SingleFlight ==
  [][ /\ \A c \in Callers :
           Called(c, "getValidToken") /\ StateExpiringSoon(credentials, now)
             => /\ Cardinality(RefreshRequests') = 1
                /\ RefreshRequests # {} => RefreshRequests' = RefreshRequests
                /\ pc'[c] = "awaitRefresh"
                /\ waitOn'[c] \in RefreshRequests'
      /\ \A o \in Callers : \A c \in Callers :
           RefreshSettles(o) /\ pc[c] = "awaitRefresh" /\ op[c] = "getValidToken"
             => /\ pc'[c] = "idle"
                /\ ret'[c].op = "getValidToken"
                /\ ret'[c].status = ret'[o].status
                /\ ret'[c].outcome = ret'[o].outcome
                /\ ret'[c].outcome.kind = "ok"
                     => /\ ret'[c].status = "ok"
                        /\ ret'[c].value = ret'[c].outcome.access_token
                /\ ret'[c].outcome.kind # "ok"
                     => /\ ret'[c].status = "err"
                        /\ ret'[c].error = ret'[o].error
    ]_vars

\* two getValidToken() calls have shared one successful refresh
C1_Witness ==
  \E c1 \in Callers : \E c2 \in Callers \ {c1} :
    /\ ret[c1].op = "getValidToken" /\ ret[c2].op = "getValidToken"
    /\ ret[c1].status = "ok" /\ ret[c2].status = "ok"
    /\ ret[c1].waited = c1 /\ ret[c2].waited = c1
    /\ ret[c1].value = ret[c2].value
    /\ ret[c1].value = ret[c1].outcome.access_token

(* ------------------------------- C2 ------------------------------------ *)
\* C2: at most one refresh HTTP request is in flight in every reachable state.
C2_AtMostOneRefreshInFlight == Cardinality(RefreshRequests) <= 1

\* a second refreshToken() call was made while a refresh was in flight
C2_Witness ==
  \E c1 \in Callers : \E c2 \in Callers \ {c1} :
    /\ req[c1].kind = "refresh"
    /\ pc[c2] = "awaitRefresh" /\ op[c2] = "refreshToken" /\ waitOn[c2] = c1

(* ------------------------------- C3 ------------------------------------ *)
\* C3: the in-flight handle is set exactly while a refresh request is on the
\* wire: it is cleared in the step in which the request settles, whether it
\* succeeded or failed, and a refreshToken()/getValidToken() call that needs
\* a refresh while none is in flight puts a new request on the wire.
C3_HandleReleased ==
  [][ /\ \A o \in Callers : RefreshSettles(o) => tokenRefreshPromise' = NoCaller
      /\ tokenRefreshPromise' # NoCaller => req'[tokenRefreshPromise'].kind = "refresh"
      /\ \A c \in Callers :
           /\ RefreshRequests = {}
           /\ \/ Called(c, "getValidToken") /\ StateExpiringSoon(credentials, now)
              \/ /\ Called(c, "refreshToken")
                 /\ \E t \in ArgRefreshTokens :
                      CallRefreshToken(c, t) /\ (Truthy(t) \/ HasRefreshToken(credentials))
           => req'[c].kind = "refresh" /\ waitOn'[c] = c
    ]_vars

\* a refresh has just failed towards two calls, the handle is free again and
\* the store is still ExpiringSoon, so that the next call needs a refresh
C3_Witness ==
  \E c1 \in Callers : \E c2 \in Callers \ {c1} :
    /\ ret[c1].op = "refreshToken" /\ ret[c2].op = "getValidToken"
    /\ ret[c1].status = "err" /\ ret[c2].status = "err"
    /\ ret[c1].waited = c1 /\ ret[c2].waited = c1
    /\ tokenRefreshPromise = NoCaller
    /\ RefreshRequests = {}
    /\ StateExpiringSoon(credentials, now)

(* ------------------------------- C4 ------------------------------------ *)
\* a suspended getValidToken() call c completes because the refresh of o succeeded
GetValidTokenRefreshed(c, o) ==
  /\ RefreshDelivers(o)
  /\ pc[c] = "awaitRefresh" /\ op[c] = "getValidToken" /\ waitOn[c] = o

\* C4 as stated: when getValidToken() was called in ExpiringSoon and the
\* refresh succeeds, the call returns the access token the refresh delivered
\* and the store is Valid when the call returns.
C4_Original ==
  [][ \A c \in Callers : \A o \in Callers :
        GetValidTokenRefreshed(c, o)
          => /\ ret'[c].status = "ok"
             /\ ret'[c].value = ret'[o].outcome.access_token
             /\ StateValid(credentials', now')
    ]_vars

\* C4 amended: when getValidToken() was called in ExpiringSoon and the refresh
\* succeeds, the call returns the access token the refresh delivered, the
\* store holds that token with expires_at = (time of the response) +
\* expires_in seconds, and the store is Valid when the call returns exactly
\* when the delivered expires_in exceeds the 5-minute buffer (300 seconds).
C4_RefreshThenToken ==
  [][ \A c \in Callers : \A o \in Callers :
        GetValidTokenRefreshed(c, o)
          => LET data == ret'[o].outcome IN
             /\ ret'[c].status = "ok"
             /\ ret'[c].value = data.access_token
             /\ credentials'.present
             /\ credentials'.access_token = data.access_token
             /\ credentials'.expires_at = now + data.expires_in * 1000
             /\ StateValid(credentials', now') <=> data.expires_in > 300
    ]_vars

\* a getValidToken() call that joined a refresh returned the delivered token
\* and the store is Valid
C4_Witness ==
  \E c \in Callers :
    /\ ret[c].op = "getValidToken" /\ ret[c].status = "ok"
    /\ ret[c].waited # NoCaller
    /\ ret[c].value = ret[c].outcome.access_token
    /\ credentials.present /\ credentials.access_token = ret[c].value
    /\ StateValid(credentials, now)

(* ------------------------------- C5 ------------------------------------ *)
\* C5: getValidToken() called with no credentials stored, or with a token
\* within the buffer or past expiry and no refresh token stored, throws
\* AuthenticationError at once, sends no HTTP request and leaves the stored
\* credentials as they were.
C5_NoRefreshFails ==
  [][ \A c \in Callers :
        /\ Called(c, "getValidToken")
        /\ ~credentials.present \/ StateExpiredNoRefresh(credentials, now)
        => /\ ret'[c].op = "getValidToken"
           /\ ret'[c].status = "err"
           /\ ret'[c].error.name = "AuthenticationError"
           /\ pc'[c] = "idle"
           /\ req' = req
           /\ credentials' = credentials
    ]_vars

\* getValidToken() threw on an expired token without refresh token while
\* another call's refresh was in flight; the credentials are still stored
C5_Witness ==
  \E c \in Callers :
    /\ ret[c].op = "getValidToken" /\ ret[c].status = "err"
    /\ ret[c].error.name = "AuthenticationError"
    /\ ret[c].waited = NoCaller
    /\ StateExpiredNoRefresh(credentials, now)
    /\ RefreshRequests # {}

(* ------------------------------- C6 ------------------------------------ *)
\* C6: a getValidToken() call puts a refresh request on the wire only when
\* the stored token is within the buffer and a refresh token is stored; in
\* state Valid it returns the stored access token in the same step, with no
\* request sent, no suspension and no change of the store.
C6_RefreshOnlyWhenNeeded ==
  [][ \A c \in Callers :
        Called(c, "getValidToken")
          => /\ req' # req => /\ WithinBuffer(credentials, now)
                              /\ HasRefreshToken(credentials)
             /\ StateValid(credentials, now)
                  => /\ ret'[c].op = "getValidToken"
                     /\ ret'[c].status = "ok"
                     /\ ret'[c].value = credentials.access_token
                     /\ pc'[c] = "idle"
                     /\ req' = req
                     /\ credentials' = credentials
                     /\ tokenRefreshPromise' = tokenRefreshPromise
    ]_vars

\* getValidToken() returned the stored token of a Valid store while another
\* call's refresh was in flight
C6_Witness ==
  \E c \in Callers :
    /\ ret[c].op = "getValidToken" /\ ret[c].status = "ok"
    /\ ret[c].waited = NoCaller
    /\ StateValid(credentials, now)
    /\ ret[c].value = credentials.access_token
    /\ RefreshRequests # {}

(* ------------------------------- C7 ------------------------------------ *)
\* C7: revokeToken() never throws, and when it was called with credentials
\* stored, no credentials are stored at the moment it completes, whatever the
\* outcome of the remote revocation.
C7_RevokeClears ==
  [][ \A c \in Callers :
        /\ Called(c, "revokeToken") /\ pc'[c] = "idle" => ret'[c].status = "ok"
        /\ Called(c, "revokeToken") /\ credentials.present
             => req'[c].kind = "revoke" /\ pc'[c] = "awaitHttp"
        /\ req[c].kind = "revoke" /\ req'[c].kind # "revoke"
             => /\ ret'[c].op = "revokeToken" /\ ret'[c].status = "ok"
                /\ pc'[c] = "idle"
                /\ ~credentials'.present
    ]_vars

\* a revocation whose remote call failed has completed and nothing is stored
C7_Witness ==
  \E c \in Callers :
    /\ ret[c].op = "revokeToken" /\ ret[c].status = "ok"
    /\ ret[c].outcome.kind = "failed"
    /\ ~credentials.present

(* ------------------------------- C8 ------------------------------------ *)
\* the refresh token refreshToken(t) is to use in the current state
WantedRefreshToken(t) == IF Truthy(t) THEN t ELSE credentials.refresh_token

\* C8 as stated: in every state, refreshToken(t) is answered by a refresh
\* request carrying t if given and the stored refresh token otherwise, and
\* fails with AuthenticationError, sending nothing, when there is neither.
C8_Original ==
  [][ \A c \in Callers : \A t \in ArgRefreshTokens :
        Called(c, "refreshToken") /\ CallRefreshToken(c, t)
          => IF Truthy(t) \/ HasRefreshToken(credentials)
               THEN /\ pc'[c] = "awaitRefresh"
                    /\ req'[waitOn'[c]].kind = "refresh"
                    /\ req'[waitOn'[c]].refresh_token = WantedRefreshToken(t)
               ELSE /\ pc'[c] = "idle"
                    /\ ret'[c].status = "err"
                    /\ ret'[c].error.name = "AuthenticationError"
                    /\ req' = req
    ]_vars

\* C8 amended: while no refresh is in flight, refreshToken(t) sends a refresh
\* request carrying t if given and the stored refresh token otherwise, and
\* fails with AuthenticationError, sending nothing, when there is neither;
\* while a refresh is in flight, refreshToken(t) sends nothing and awaits the
\* request in flight, whatever t is and whatever token that request carries.
C8_TokenUsed ==
  [][ \A c \in Callers : \A t \in ArgRefreshTokens :
        Called(c, "refreshToken") /\ CallRefreshToken(c, t)
          => IF RefreshRequests # {}
               THEN /\ pc'[c] = "awaitRefresh"
                    /\ waitOn'[c] \in RefreshRequests
                    /\ req' = req
             ELSE IF Truthy(t) \/ HasRefreshToken(credentials)
               THEN /\ pc'[c] = "awaitRefresh"
                    /\ waitOn'[c] = c
                    /\ req'[c].kind = "refresh"
                    /\ req'[c].refresh_token = WantedRefreshToken(t)
                    /\ \A d \in Callers \ {c} : req'[d] = req[d]
               ELSE /\ pc'[c] = "idle"
                    /\ ret'[c].op = "refreshToken"
                    /\ ret'[c].status = "err"
                    /\ ret'[c].error.name = "AuthenticationError"
                    /\ req' = req
    ]_vars

\* a refresh request carries the caller's token although another refresh
\* token is stored
C8_Witness ==
  \E c \in Callers :
    /\ req[c].kind = "refresh"
    /\ req[c].refresh_token = "rtB"
    /\ HasRefreshToken(credentials)
    /\ credentials.refresh_token # "rtB"

(* ------------------------------- C9 ------------------------------------ *)
\* validateToken() applied to stored credentials drawn from a bounded set:
\* absent, or present with any of three refresh tokens and an expiry on
\* either side of the buffer, at it, one millisecond off it, one minute
\* ahead and one hour ahead (a token just issued with expires_in = 3600).
ValidateOffsets == {0 - 1, 0, 60000, 299999, 300000, 300001, 3600 * 1000}
ValidateNows == {0, 60000}
ValidateCredentials(t) ==
  {NoCredentials} \cup
  { [present |-> TRUE, access_token |-> a, refresh_token |-> r, expires_at |-> t + d] :
      a \in ServerAccessTokens, r \in {Undefined, "", "rtA"}, d \in ValidateOffsets }

InitValidate ==
  /\ now \in ValidateNows
  /\ credentials \in ValidateCredentials(now)
  /\ tokenRefreshPromise = NoCaller
  /\ pc = [c \in Callers |-> "idle"]
  /\ op = [c \in Callers |-> "none"]
  /\ req = [c \in Callers |-> NoRequest]
  /\ waitOn = [c \in Callers |-> NoCaller]
  /\ ret = Nothing
  /\ issuedBefore = [c \in Callers |-> Off]
  /\ sdk = NoSdk

NextValidate == \E c \in Callers : CallValidateToken(c)

SpecValidate == InitValidate /\ [][NextValidate]_vars

GrantFromNoCredentials(c) == GrantDelivers(c) /\ ~credentials.present
\* setCredentials() is called while no credentials are stored
SetFromNoCredentials(c) == Called(c, "setCredentials") /\ ~credentials.present

\* C10 as stated: from NoCredentials, a successful grant stores credentials
\* with expires_at = (time of the response) + expires_in seconds, and after
\* it, or after setCredentials(creds), the store is Valid.
C10_Original ==
  [][ \A c \in Callers :
        /\ GrantFromNoCredentials(c)
             => /\ credentials'.expires_at = now + ret'[c].outcome.expires_in * 1000
                /\ StateValid(credentials', now')
        /\ SetFromNoCredentials(c) => StateValid(credentials', now')
    ]_vars

\* C10 amended: from NoCredentials, a successful grant stores the delivered
\* access token with expires_at = (time of the response) + expires_in
\* seconds, and setCredentials(creds) stores creds as given; the store is
\* then Valid exactly when the stored expires_at lies more than 5 minutes
\* ahead, which for a grant means expires_in > 300 seconds.
C10_GrantStores ==
  [][ \A c \in Callers :
        /\ GrantFromNoCredentials(c)
             => LET data == ret'[c].outcome IN
                /\ credentials'.present
                /\ credentials'.access_token = data.access_token
                /\ credentials'.expires_at = now + data.expires_in * 1000
                /\ StateValid(credentials', now') <=> data.expires_in > 300
        /\ SetFromNoCredentials(c)
             => LET creds == ret'[c].value IN
                /\ credentials' = creds
                /\ StateValid(credentials', now') <=> creds.expires_at - now > 5 * 60 * 1000
    ]_vars

\* a client-credentials grant has just stored a Valid token
C10_Witness ==
  \E c \in Callers :
    /\ ret[c].op = "clientCredentialsGrant" /\ ret[c].status = "ok"
    /\ credentials = ret[c].value
    /\ credentials.expires_at = now + ret[c].outcome.expires_in * 1000
    /\ StateValid(credentials, now)

(* ------------------------------- C11 ----------------------------------- *)
\* the token store with the order of its token requests recorded
InitFreshness ==
  /\ credentials = NoCredentials
  /\ tokenRefreshPromise = NoCaller
  /\ now = 0
  /\ pc = [c \in Callers |-> "idle"]
  /\ op = [c \in Callers |-> "none"]
  /\ req = [c \in Callers |-> NoRequest]
  /\ waitOn = [c \in Callers |-> NoCaller]
  /\ ret = Nothing
  /\ issuedBefore = [c \in Callers |-> {}]
  /\ sdk = NoSdk

SpecFreshness == InitFreshness /\ [][Next]_vars

\* the token request of call c settles in this step
TokenRequestSettles(c) == TokenRequest(req[c]) /\ req'[c].kind = "none"

\* C11: once a refresh has succeeded, the stored credentials are never
\* afterwards replaced by the response of a token request (grant or refresh)
\* that was put on the wire before that refresh was: when such a request
\* settles, the stored credentials stay as they are.
C11_MonotonicFreshness ==
  [][ \A c \in Callers :
        TokenRequestSettles(c) /\ "refreshed" \in issuedBefore[c]
          => credentials' = credentials
    ]_vars

(* ------------------------------- C12 ----------------------------------- *)
\* the closed taxonomy of typed errors
Taxonomy ==
  {"AuthenticationError", "ValidationError", "PaymentError", "NotFoundError",
   "RateLimitError", "NetworkError", "ApiError", "ConfigurationError"}

\* C12: every failure of a public operation of the token store or of a
\* resource service reaches the caller as a typed error of the closed
\* taxonomy; a raw transport error never reaches the caller.
C12_TypedErrors ==
  \A c \in Callers :
    ret[c].op # "none" /\ ret[c].status = "err" => ret[c].error.name \in Taxonomy

(* ------------------------------- C13 ----------------------------------- *)
\* the exchange ended with no HTTP response at all
NoResponse(f) == f.kind \in {"network", "timeout"}

\* C13: a request that ends with no HTTP response at all (connection failure
\* or timeout) is surfaced as NetworkError by the token store and by the
\* resource services (stated here for the methods that route their failures
\* through an error handler, which the two direct TerminalService methods
\* do not).
C13_NoResponseIsNetworkError ==
  [][ \A c \in Callers : \A f \in ApiFailures :
        /\ NoResponse(f)
        /\ op[c] \notin DirectMethods
        /\ ApiFails(c, f) \/ (f \in HttpFailures /\ RefreshFails(c, f))
        => ret'[c].error.name = "NetworkError"
    ]_vars

(* ------------------------------- C14 ----------------------------------- *)
\* the error codes of the SDK (PayfirmaErrorCode) and one the SDK does not know
ErrorCodes ==
  {"AUTHENTICATION_FAILED", "TOKEN_EXPIRED", "INVALID_CREDENTIALS", "INSUFFICIENT_SCOPE",
   "NETWORK_ERROR", "TIMEOUT_ERROR", "REQUEST_FAILED",
   "API_ERROR", "RATE_LIMIT_EXCEEDED", "SERVICE_UNAVAILABLE",
   "VALIDATION_ERROR", "REQUIRED_FIELD_MISSING", "INVALID_FORMAT", "INVALID_AMOUNT",
   "INSUFFICIENT_FUNDS", "CARD_DECLINED", "TRANSACTION_NOT_FOUND", "CUSTOMER_NOT_FOUND",
   "PLAN_NOT_FOUND", "INVOICE_NOT_FOUND", "CARD_NOT_FOUND", "SUBSCRIPTION_NOT_FOUND",
   "PAYMENT_DECLINED", "PAYMENT_FAILED", "DUPLICATE_TRANSACTION",
   "INVALID_CONFIGURATION", "UNKNOWN_ERROR", "WEIRD_CODE"}
\* the HTTP status of a failure
ErrorStatuses == {400, 401, 402, 404, 429, 500, 503}

\* call c classifies the failure (code, status)
CallFromApiResponse(c, code, status) ==
  /\ pc[c] = "idle"
  /\ ret' = Only(c, Returned("fromApiResponse", [code |-> code, status |-> status],
                             fromApiResponse(code, "x", status), NoCaller, NoOutcome))
  /\ UNCHANGED <<credentials, tokenRefreshPromise, now, pc, op, req, waitOn, issuedBefore>>
  /\ UNCHANGED sdk

NextClassify ==
  \E c \in Callers : \E code \in ErrorCodes : \E status \in ErrorStatuses :
    CallFromApiResponse(c, code, status)

SpecClassify == Init /\ [][NextClassify]_vars

\* the codes of the SDK that name the absence of a resource
ResourceAbsenceCodes ==
  {"TRANSACTION_NOT_FOUND", "CUSTOMER_NOT_FOUND", "PLAN_NOT_FOUND", "INVOICE_NOT_FOUND",
   "CARD_NOT_FOUND", "SUBSCRIPTION_NOT_FOUND"}
\* the codes the classifier dispatches on
RecognisedCodes ==
  {"AUTHENTICATION_FAILED", "TOKEN_EXPIRED", "INVALID_CREDENTIALS",
   "VALIDATION_ERROR", "REQUIRED_FIELD_MISSING", "INVALID_FORMAT",
   "PAYMENT_DECLINED", "PAYMENT_FAILED", "CARD_DECLINED", "RATE_LIMIT_EXCEEDED",
   "TRANSACTION_NOT_FOUND", "CUSTOMER_NOT_FOUND", "PLAN_NOT_FOUND", "INVOICE_NOT_FOUND"}

\* C14 as stated: the classifier yields one typed error per failure; every
\* resource-absence code yields NotFoundError and every code it does not
\* recognise yields ApiError carrying the HTTP status of the failure.
C14_Original ==
  \A c \in Callers :
    ret[c].op = "fromApiResponse"
      => /\ ret[c].value.name \in Taxonomy
         /\ ret[c].arg.code \in ResourceAbsenceCodes
              => ret[c].value.name = "NotFoundError"
         /\ ret[c].arg.code \notin RecognisedCodes \cup ResourceAbsenceCodes
              => /\ ret[c].value.name = "ApiError"
                 /\ ret[c].value.statusCode = ret[c].arg.status

\* C14 amended: the classifier yields one typed error per failure by its
\* code; TRANSACTION_NOT_FOUND, CUSTOMER_NOT_FOUND, PLAN_NOT_FOUND and
\* INVOICE_NOT_FOUND yield NotFoundError (status 404), and every code it
\* does not recognise, CARD_NOT_FOUND and SUBSCRIPTION_NOT_FOUND included,
\* yields ApiError carrying the HTTP status of the failure.
C14_Classifier ==
  \A c \in Callers :
    ret[c].op = "fromApiResponse"
      => /\ ret[c].value.name \in Taxonomy
         /\ ret[c].arg.code \in {"TRANSACTION_NOT_FOUND", "CUSTOMER_NOT_FOUND",
                                  "PLAN_NOT_FOUND", "INVOICE_NOT_FOUND"}
              => /\ ret[c].value.name = "NotFoundError"
                 /\ ret[c].value.statusCode = 404
         /\ ret[c].arg.code \notin RecognisedCodes
              => /\ ret[c].value.name = "ApiError"
                 /\ ret[c].value.statusCode = ret[c].arg.status

\* the failure (WEIRD_CODE, 500) has been classified as ApiError with status 500
C14_Witness ==
  \E c \in Callers :
    /\ ret[c].op = "fromApiResponse"
    /\ ret[c].arg = [code |-> "WEIRD_CODE", status |-> 500]
    /\ ret[c].value.name = "ApiError" /\ ret[c].value.statusCode = 500

(* ------------------------------- C15 ----------------------------------- *)
(* HttpClient.request by itself: the timer it arms, the fetch it awaits    *)
(* and the body it reads afterwards.                                       *)
\* config.timeout of the client, milliseconds
TimeoutChoices == {30 * 1000, 60 * 1000}
\* the time that passes between two looks at the clock
ElapseMs == 30 * 1000
\* response.status of the answers a server may give
ResponseStatuses == {200, 500}

\* request(): the timer is armed, fetch is called and awaited
CallRequest(c, timeout) ==
  /\ pc[c] = "idle"
  /\ req' = [req EXCEPT ![c] = [kind |-> "transport", phase |-> "fetch",
                                sentAt |-> now, timeout |-> timeout,
                                timerArmed |-> TRUE, status |-> 0]]
  /\ pc' = [pc EXCEPT ![c] = "awaitHttp"]
  /\ op' = [op EXCEPT ![c] = "request"]
  /\ ret' = Nothing
  /\ UNCHANGED <<credentials, tokenRefreshPromise, now, waitOn, issuedBefore>>
  /\ UNCHANGED sdk

\* fetch resolves with the response head: clearTimeout, then the body is awaited
FetchResolves(c, status) ==
  /\ req[c].kind = "transport" /\ req[c].phase = "fetch"
  /\ req' = [req EXCEPT ![c].phase = "body", ![c].timerArmed = FALSE,
                        ![c].status = status]
  /\ ret' = Nothing
  /\ UNCHANGED <<credentials, tokenRefreshPromise, now, pc, op, waitOn, issuedBefore>>
  /\ UNCHANGED sdk

\* the body has been read: the call returns, or throws on a non-2xx status
BodyArrives(c) ==
  /\ req[c].kind = "transport" /\ req[c].phase = "body"
  /\ Complete(c)
  /\ ret' = Only(c, IF req[c].status = 200
                      THEN Returned("request", Undefined, Entity, NoCaller, NoOutcome)
                      ELSE Threw("request", Undefined,
                                 HttpClientError([kind |-> "http_error",
                                                  status |-> req[c].status]),
                                 NoCaller, NoOutcome))
  /\ UNCHANGED <<credentials, tokenRefreshPromise, now, waitOn, issuedBefore>>
  /\ UNCHANGED sdk

\* fetch, or the reading of the body, rejects: the connection failed
TransportRejects(c) ==
  /\ req[c].kind = "transport"
  /\ Complete(c)
  /\ ret' = Only(c, Threw("request", Undefined,
                          HttpClientError([kind |-> "network", status |-> 0]),
                          NoCaller, NoOutcome))
  /\ UNCHANGED <<credentials, tokenRefreshPromise, now, waitOn, issuedBefore>>
  /\ UNCHANGED sdk

\* the timer of c is armed and due
TimerDue(c) ==
  /\ req[c].kind = "transport"
  /\ req[c].timerArmed
  /\ now - req[c].sentAt >= req[c].timeout

\* the timer fires: controller.abort(), fetch rejects with AbortError and
\* request() throws its timeout error
TimerFires(c) ==
  /\ TimerDue(c)
  /\ Complete(c)
  /\ ret' = Only(c, Threw("request", Undefined,
                          HttpClientError([kind |-> "timeout", status |-> 0]),
                          NoCaller, NoOutcome))
  /\ UNCHANGED <<credentials, tokenRefreshPromise, now, waitOn, issuedBefore>>
  /\ UNCHANGED sdk

\* time passes, but not past a timer that is due
Elapse ==
  /\ \A c \in Callers : ~TimerDue(c)
  /\ now + ElapseMs <= MaxTicks * TickMs
  /\ now' = now + ElapseMs
  /\ ret' = Nothing
  /\ UNCHANGED <<credentials, tokenRefreshPromise, pc, op, req, waitOn, issuedBefore>>
  /\ UNCHANGED sdk

NextTransport ==
  \/ \E c \in Callers : \E timeout \in TimeoutChoices : CallRequest(c, timeout)
  \/ \E c \in Callers : \E status \in ResponseStatuses : FetchResolves(c, status)
  \/ \E c \in Callers : BodyArrives(c)
  \/ \E c \in Callers : TransportRejects(c)
  \/ \E c \in Callers : TimerFires(c)
  \/ Elapse

SpecTransport == Init /\ [][NextTransport]_vars

\* C15: whenever the configured timeout elapses before a transport call has
\* completed, the call is aborted and fails with a timeout failure that is
\* told apart from the other failures, and no transport call is pending
\* once more than its timeout has passed since it was sent.
C15_TimeoutAborts ==
  [][ \A c \in Callers :
        /\ TimerFires(c)
             => /\ pc'[c] = "idle"
                /\ ret'[c].status = "err"
                /\ ret'[c].error.message = "Request timeout"
                /\ \A f \in ApiFailures :
                     f.kind # "timeout"
                       => HttpClientError(f).message # ret'[c].error.message
        /\ req'[c].kind = "transport" => now' - req'[c].sentAt <= req'[c].timeout
    ]_vars

(* ------------------------------- C16 ----------------------------------- *)
\* C16: after any sequence of construction and updateConfig() calls the
\* configuration held by the SDK has a non-empty clientId, a non-empty
\* clientSecret and, when a timeout is given, a timeout within
\* [1000 ms, 300000 ms]; no request is on the wire before a valid
\* configuration is held.
C16_ConfigValid ==
  /\ sdk.constructed
       => /\ sdk.config.clientId \notin {Absent, ""}
          /\ sdk.config.clientSecret \notin {Absent, ""}
          /\ sdk.config.timeout # NoTimeout
               => sdk.config.timeout >= 1000 /\ sdk.config.timeout <= 300000
  /\ ~sdk.constructed => \A c \in Callers : req[c].kind = "none"

(* ------------------------------- C17 ----------------------------------- *)
\* C17: ConfigurationError is produced only for local configuration
\* problems: a call that ends in ConfigurationError had no HTTP exchange
\* behind it, and initialize() whose client-credentials grant failed ends in
\* AuthenticationError.
C17_ConfigurationErrorLocal ==
  \A c \in Callers :
    ret[c].op # "none" /\ ret[c].status = "err"
      => /\ ret[c].error.name = "ConfigurationError" => ret[c].outcome.kind = "none"
         /\ ret[c].op = "initialize" /\ ret[c].outcome.kind = "failed"
              => ret[c].error.name = "AuthenticationError"

(* ------------------------------- C18 ----------------------------------- *)
(* The key-case transformers.  A string is a sequence of characters; a     *)
(* JSON value is a leaf, an array of values or an object, an object being  *)
(* the sequence of its entries in insertion order.                         *)
LowerCase == {"a", "b"}
UpperCase == {"A", "B"}
toLowerCase(ch) == IF ch = "A" THEN "a" ELSE IF ch = "B" THEN "b" ELSE ch
toUpperCase(ch) == IF ch = "a" THEN "A" ELSE IF ch = "b" THEN "B" ELSE ch

\* str.replace(/[A-Z]/g, letter => `_${letter.toLowerCase()}`)
RECURSIVE camelToSnake(_)
camelToSnake(str) ==
  IF str = <<>> THEN <<>>
  ELSE IF Head(str) \in UpperCase
    THEN <<"_", toLowerCase(Head(str))>> \o camelToSnake(Tail(str))
  ELSE <<Head(str)>> \o camelToSnake(Tail(str))

\* (mutant) an underscore at the start of the key is left alone
RECURSIVE snakeToCamelFrom(_, _)
snakeToCamelFrom(str, i) ==
  IF i > Len(str) THEN <<>>
  ELSE IF i > 1 /\ str[i] = "_" /\ i < Len(str) /\ str[i + 1] \in LowerCase
    THEN <<toUpperCase(str[i + 1])>> \o snakeToCamelFrom(str, i + 2)
  ELSE <<str[i]>> \o snakeToCamelFrom(str, i + 1)
snakeToCamel_notAtStart(str) == snakeToCamelFrom(str, 1)

\* str.replace(/_([a-z])/g, (_, letter) => letter.toUpperCase())
RECURSIVE snakeToCamel(_)
snakeToCamel(str) ==
  IF str = <<>> THEN <<>>
  ELSE IF Head(str) = "_" /\ Len(str) > 1 /\ str[2] \in LowerCase
    THEN <<toUpperCase(str[2])>> \o snakeToCamel(Tail(Tail(str)))
  ELSE <<Head(str)>> \o snakeToCamel(Tail(str))

Leaf == [type |-> "leaf", items |-> <<>>]
Array(items) == [type |-> "array", items |-> items]
Object(entries) == [type |-> "object", items |-> entries]

\* transformed[key] = value
Put(entries, key, value) ==
  IF \E i \in 1..Len(entries) : entries[i].key = key
    THEN [i \in 1..Len(entries) |->
            IF entries[i].key = key THEN [key |-> key, value |-> value] ELSE entries[i]]
    ELSE Append(entries, [key |-> key, value |-> value])

RECURSIVE transformKeysToSnake(_)
RECURSIVE SnakeEntries(_, _)
SnakeEntries(entries, transformed) ==
  IF entries = <<>> THEN transformed
  ELSE SnakeEntries(Tail(entries),
                    Put(transformed, camelToSnake(Head(entries).key),
                        transformKeysToSnake(Head(entries).value)))
transformKeysToSnake(obj) ==
  IF obj.type = "leaf" THEN obj
  ELSE IF obj.type = "array"
    THEN Array([i \in 1..Len(obj.items) |-> transformKeysToSnake(obj.items[i])])
  ELSE Object(SnakeEntries(obj.items, <<>>))

RECURSIVE transformKeysToCamel(_)
RECURSIVE CamelEntries(_, _)
CamelEntries(entries, transformed) ==
  IF entries = <<>> THEN transformed
  ELSE CamelEntries(Tail(entries),
                    Put(transformed, snakeToCamel(Head(entries).key),
                        transformKeysToCamel(Head(entries).value)))
transformKeysToCamel(obj) ==
  IF obj.type = "leaf" THEN obj
  ELSE IF obj.type = "array"
    THEN Array([i \in 1..Len(obj.items) |-> transformKeysToCamel(obj.items[i])])
  ELSE Object(CamelEntries(obj.items, <<>>))

\* the objects handed to the transformers: letter-only keys of bounded length,
\* values nested to a bounded depth
KeyLetters == {"a", "B"}
RECURSIVE KeysOfLen(_)
KeysOfLen(n) ==
  IF n = 0 THEN {<<>>}
  ELSE {<<ch>> \o k : ch \in KeyLetters, k \in KeysOfLen(n - 1)}
LetterKeys == UNION {KeysOfLen(n) : n \in 1..MaxKeyLen}
RECURSIVE Values(_)
Values(depth) ==
  IF depth = 0 THEN {Leaf}
  ELSE LET inner == Values(depth - 1)
       IN  {Leaf}
           \cup {Array(<<v>>) : v \in inner}
           \cup {Object(<<[key |-> k, value |-> v]>>) : k \in LetterKeys, v \in inner}
Objects ==
  {Object(<<>>)}
  \cup {Object(<<[key |-> k, value |-> v]>>) : k \in LetterKeys, v \in Values(MaxDepth)}
  \cup {Object(<<[key |-> kk[1], value |-> Leaf], [key |-> kk[2], value |-> Leaf]>>) :
          kk \in {pair \in LetterKeys \X LetterKeys : pair[1] # pair[2]}}

\* a body is handed to transformKeysToSnake on its way out, and what was sent
\* is handed to transformKeysToCamel on its way back
Body(obj) == [kind |-> "body", body |-> obj]

InitKeys ==
  /\ credentials = NoCredentials
  /\ tokenRefreshPromise = NoCaller
  /\ now = 0
  /\ pc = [c \in Callers |-> "idle"]
  /\ op = [c \in Callers |-> "none"]
  /\ \E c \in Callers : \E obj \in Objects :
       req = [d \in Callers |-> IF d = c THEN Body(obj) ELSE NoRequest]
  /\ waitOn = [c \in Callers |-> NoCaller]
  /\ ret = Nothing
  /\ issuedBefore = [c \in Callers |-> Off]
  /\ sdk = NoSdk

CallTransformKeysToSnake(c) ==
  /\ pc[c] = "idle"
  /\ req[c].kind = "body"
  /\ pc' = [pc EXCEPT ![c] = "sent"]
  /\ op' = [op EXCEPT ![c] = "roundTrip"]
  /\ ret' = Only(c, Returned("transformKeysToSnake", req[c].body,
                             transformKeysToSnake(req[c].body), NoCaller, NoOutcome))
  /\ UNCHANGED <<credentials, tokenRefreshPromise, now, req, waitOn, sdk, issuedBefore>>

CallTransformKeysToCamel(c) ==
  /\ pc[c] = "sent"
  /\ op[c] = "roundTrip"
  /\ LET sent == transformKeysToSnake(req[c].body)
     IN  ret' = Only(c, Returned("roundTrip", req[c].body, transformKeysToCamel(sent),
                                 NoCaller, sent))
  /\ pc' = [pc EXCEPT ![c] = "idle"]
  /\ op' = [op EXCEPT ![c] = "none"]
  /\ req' = [req EXCEPT ![c] = NoRequest]
  /\ UNCHANGED <<credentials, tokenRefreshPromise, now, waitOn, sdk, issuedBefore>>

NextKeys ==
  \E c \in Callers :
    \/ CallTransformKeysToSnake(c)
    \/ CallTransformKeysToCamel(c)

SpecKeys == InitKeys /\ [][NextKeys]_vars

\* every key of the value, at every depth, is made of letters only
RECURSIVE LetterOnly(_)
LetterOnly(obj) ==
  IF obj.type = "leaf" THEN TRUE
  ELSE IF obj.type = "array"
    THEN \A i \in 1..Len(obj.items) : LetterOnly(obj.items[i])
  ELSE \A i \in 1..Len(obj.items) :
         /\ \A j \in 1..Len(obj.items[i].key) :
              obj.items[i].key[j] \in LowerCase \cup UpperCase
         /\ LetterOnly(obj.items[i].value)

WritersInProgress ==
  {c \in Callers : TokenRequest(req[c]) \/ req[c].kind = "revoke"}

\* C19: two operations that write the stored credentials (grant, refresh,
\* revoke, setCredentials) are never in progress at the same time on one
\* token store.
C19_OneWriter == Cardinality(WritersInProgress) <= 1

(* ------------------------------- C20 ----------------------------------- *)
\* C20: every request a resource service puts on the wire carries a bearer
\* token obtained from the token store, and none is sent in a step that
\* leaves the store without credentials.
C20_BearerOnEveryRequest ==
  [][ \A c \in Callers :
        req[c].kind # "api" /\ req'[c].kind = "api"
          => /\ req'[c].bearer # 0
             /\ credentials'.present
             /\ req'[c].bearer = credentials'.access_token
    ]_vars

(* ------------------------------- C21 ----------------------------------- *)
(* What the error classes keep of an API error response besides the        *)
(* message and the status: each constructor passes its own details and     *)
(* request id to PayfirmaError.                                            *)
\* details of the error of class name built from a response with these details
DetailsOf(name, details) ==
  IF name = "NotFoundError" THEN "resourceType"
  ELSE IF name = "RateLimitError" THEN "resetAt,remaining,window"
  ELSE details
\* every class the classifier builds is handed request_id
RequestIdOf(name, request_id) == request_id

\* the error responses the service boundary hands to the classifier
ResponseMessages == {"Card was declined"}
ResponseDetails == {Undefined, "body"}
ResponseRequestIds == {Undefined, "req-1"}
ErrorResponses ==
  [code : ErrorCodes, message : ResponseMessages, status : ErrorStatuses,
   details : ResponseDetails, request_id : ResponseRequestIds]

\* ErrorFactory.fromApiResponse(response): the error with all it retains
CallClassify(c, response) ==
  /\ pc[c] = "idle"
  /\ LET error == fromApiResponse(response.code, response.message, response.status)
     IN  ret' = Only(c, Returned("classify", response,
                                 [name |-> error.name,
                                  message |-> error.message,
                                  statusCode |-> error.statusCode,
                                  details |-> DetailsOf(error.name, response.details),
                                  requestId |-> RequestIdOf(error.name, response.request_id)],
                                 NoCaller, NoOutcome))
  /\ UNCHANGED <<credentials, tokenRefreshPromise, now, pc, op, req, waitOn, sdk, issuedBefore>>

NextRetain == \E c \in Callers : \E response \in ErrorResponses : CallClassify(c, response)

SpecRetain == Init /\ [][NextRetain]_vars

\* C21: whatever category the classifier puts an HTTP failure into, the error
\* it produces keeps the failure's message, its HTTP status, the details of
\* the response body and the request id.
C21_ErrorRetainsAll ==
  \A c \in Callers :
    ret[c].op = "classify"
      => /\ ret[c].value.message = ret[c].arg.message
         /\ ret[c].value.statusCode = ret[c].arg.status
         /\ ret[c].value.details = ret[c].arg.details
         /\ ret[c].value.requestId = ret[c].arg.request_id

(* ------------------------------- C22 ----------------------------------- *)
\* C22: after every successful updateConfig() the environment of the SDK is
\* the one derived from the updated configuration: from its sandbox flag and
\* its override base URLs.
C22_EnvironmentFollowsConfig ==
  [][ \A c \in Callers :
        ret'[c].op = "updateConfig" /\ ret'[c].status = "ok"
          => sdk'.environment = getEnvironment(sdk'.config.sandbox, sdk'.config)
    ]_vars

(* ------------------------------- C23 ----------------------------------- *)
(* The body of a token request.  A form is the sequence of its fields; a    *)
(* string is the sequence of its units (a key, a value, "=" and "&" each    *)
(* count as one unit here, where JavaScript counts UTF-16 code units).      *)
\* a field is the pair [key, value], as Object.entries yields it
Field(key, value) == <<key, value>>

\* new URLSearchParams(fields).toString(): key=value pairs joined by "&"
RECURSIVE URLSearchParamsToString(_)
URLSearchParamsToString(fields) ==
  IF fields = <<>> THEN <<>>
  ELSE <<Head(fields)[1], "=", Head(fields)[2]>>
       \o (IF Len(fields) > 1 THEN <<"&">> ELSE <<>>)
       \o URLSearchParamsToString(Tail(fields))

\* Object.entries(data) of a string: one entry per unit, keyed by its index
EntriesOfString(str) == [i \in 1..Len(str) |-> Field(ToString(i - 1), str[i])]

\* the request objects the three token operations build
ClientCredentialsRequest(config) ==
  << Field("grant_type", "client_credentials"),
     Field("client_id", config.clientId),
     Field("client_secret", config.clientSecret) >>
AuthorizationCodeRequest(config, code, redirectUri, state) ==
  << Field("grant_type", "authorization_code"),
     Field("code", code),
     Field("redirect_uri", redirectUri),
     Field("client_id", config.clientId),
     Field("client_secret", config.clientSecret) >>
  \o (IF Truthy(state) THEN <<Field("state", state)>> ELSE <<>>)
RefreshTokenRequest(config, tokenToUse) ==
  << Field("grant_type", "refresh_token"),
     Field("refresh_token", tokenToUse),
     Field("client_id", config.clientId),
     Field("client_secret", config.clientSecret) >>

\* getBasicAuthHeader(): Basic base64(clientId:clientSecret)
getBasicAuthHeader(config) ==
  [scheme |-> "Basic", base64 |-> <<config.clientId, ":", config.clientSecret>>]

\* httpClient.post('/oauth/token', new URLSearchParams(request).toString(), ...)
\* on the auth client: the data it is handed is a string, and the form branch
\* of HttpClient.request appends one field per entry of its data
WireRequest(config, request) ==
  [contentType |-> "application/x-www-form-urlencoded",
   authorization |-> getBasicAuthHeader(config),
   body |-> EntriesOfString(URLSearchParamsToString(request))]

\* the configurations and arguments of the token operations
GrantConfigs == [clientId : {"id", "partner", "merchant"}, clientSecret : {"secret", "s3cret"}]
GrantStates == {Undefined, "xyz"}
GrantCodes == {"code1", "code2"}
RedirectUris == {"https://app/cb", "https://app/cb2"}
GrantRefreshTokens == {"rtA", "rtB"}
GrantRequests(config) ==
  {ClientCredentialsRequest(config)}
  \cup {AuthorizationCodeRequest(config, code, uri, state) :
          code \in GrantCodes, uri \in RedirectUris, state \in GrantStates}
  \cup {RefreshTokenRequest(config, t) : t \in GrantRefreshTokens}

\* a token operation puts its request on the wire
CallTokenOperation(c, config, request) ==
  /\ pc[c] = "idle"
  /\ ret' = Only(c, Returned("tokenRequest", [config |-> config, request |-> request],
                             WireRequest(config, request), NoCaller, NoOutcome))
  /\ UNCHANGED <<credentials, tokenRefreshPromise, now, pc, op, req, waitOn, sdk, issuedBefore>>

NextWire ==
  \E c \in Callers : \E config \in GrantConfigs : \E request \in GrantRequests(config) :
    CallTokenOperation(c, config, request)

SpecWire == Init /\ [][NextWire]_vars

\* C23: the request of a grant or a refresh has a form-encoded body whose
\* fields are exactly the grant parameters, and an Authorization header
\* Basic base64(client_id:client_secret).
C23_FormBody ==
  \A c \in Callers :
    ret[c].op = "tokenRequest"
      => /\ ret[c].value.contentType = "application/x-www-form-urlencoded"
         /\ ret[c].value.body = ret[c].arg.request
         /\ ret[c].value.authorization =
              [scheme |-> "Basic",
               base64 |-> <<ret[c].arg.config.clientId, ":", ret[c].arg.config.clientSecret>>]

(* ------------------------------- C24 ----------------------------------- *)
\* C24: once revokeToken() has completed, the stored credentials stay absent
\* until a grant, a refresh or a setCredentials invoked after that completion
\* succeeds: a grant or refresh whose request was already on the wire when
\* the revoke completed leaves absent credentials absent when it settles.
C24_RevokeIsFinal ==
  [][ \A c \in Callers :
        /\ TokenRequestSettles(c)
        /\ "revoke" \in issuedBefore[c]
        /\ ~credentials.present
        => ~credentials'.present
    ]_vars

C26_ClassifiedOnce ==
  [][ \A c \in Callers :
        /\ ret'[c].op \in AuthenticatedMethods
        /\ ret'[c].status = "err"
        /\ req[c].kind # "api"
        => ret'[c].error.name = "AuthenticationError"
    ]_vars

(***************************************************************************)
(* An application that drives the token store through the SDK facade:      *)
(* initialize, setCredentials, exchangeCodeForToken, refreshToken, revoke. *)
(***************************************************************************)
\* the configuration the SDK of this application was constructed with
FacadeConfig ==
  [clientId |-> "id", clientSecret |-> "secret", timeout |-> NoTimeout,
   sandbox |-> Absent, apiUrls |-> Absent]

InitFacade ==
  /\ credentials = NoCredentials
  /\ tokenRefreshPromise = NoCaller
  /\ now = 0
  /\ pc = [c \in Callers |-> "idle"]
  /\ op = [c \in Callers |-> "none"]
  /\ req = [c \in Callers |-> NoRequest]
  /\ waitOn = [c \in Callers |-> NoCaller]
  /\ ret = Nothing
  /\ issuedBefore = [c \in Callers |-> {}]
  /\ sdk = [constructed |-> TRUE, config |-> FacadeConfig,
            environment |-> getEnvironment(FacadeConfig.sandbox, FacadeConfig),
            initialized |-> FALSE, authConfig |-> FacadeConfig, initializeGrants |-> 0]

\* the credentials sdk.setCredentials(accessToken, refreshToken?, expiresAt?)
\* builds: expiresAt, or twelve hours from now
DefaultLifetime == 12 * 60 * 60 * 1000
SdkCredentials ==
  { [present |-> TRUE, access_token |-> a, refresh_token |-> r, expires_at |-> now + d] :
       a \in RestoredAccessTokens, r \in RestoredRefreshTokens,
       d \in {DefaultLifetime, 360000} }

\* sdk.setCredentials(...)
CallSdkSetCredentials(c, creds) ==
  /\ sdk.constructed
  /\ pc[c] = "idle"
  /\ credentials' = creds
  /\ sdk' = [sdk EXCEPT !.initialized = TRUE]
  /\ ret' = Only(c, Returned("sdk.setCredentials", Undefined, Undefined, NoCaller,
                             NoOutcome))
  /\ UNCHANGED <<tokenRefreshPromise, now, pc, op, req, waitOn, issuedBefore>>

\* sdk.exchangeCodeForToken(code, redirectUri), up to its suspension on the grant
CallExchangeCodeForToken(c) ==
  /\ sdk.constructed
  /\ pc[c] = "idle"
  /\ op' = [op EXCEPT ![c] = "exchangeCodeForToken"]
  /\ req' = [req EXCEPT ![c] = [kind |-> "authorization_code",
                                refresh_token |-> Undefined, bearer |-> 0]]
  /\ pc' = [pc EXCEPT ![c] = "awaitHttp"]
  /\ ret' = Nothing
  /\ UNCHANGED <<credentials, tokenRefreshPromise, now, waitOn, sdk, issuedBefore>>

\* sdk.refreshToken()
CallSdkRefreshToken(c) ==
  /\ sdk.constructed
  /\ pc[c] = "idle"
  /\ refreshToken(c, "sdk.refreshToken", Undefined)
  /\ UNCHANGED <<credentials, now, sdk>>

\* sdk.revoke(): with nothing stored revokeToken() returns at once and the
\* SDK is reset in the same turn; otherwise the call suspends on the DELETE
CallRevoke(c) ==
  /\ sdk.constructed
  /\ pc[c] = "idle"
  /\ IF ~credentials.present
       THEN /\ ret' = Only(c, Returned("revoke", Undefined, Undefined, NoCaller,
                                       NoOutcome))
            /\ sdk' = Revoked(sdk)
            /\ issuedBefore' = RevokeCompleted
            /\ UNCHANGED <<pc, op, req>>
       ELSE /\ req' = [req EXCEPT ![c] = [kind |-> "revoke", refresh_token |-> Undefined,
                                          bearer |-> credentials.access_token]]
            /\ pc' = [pc EXCEPT ![c] = "awaitHttp"]
            /\ op' = [op EXCEPT ![c] = "revoke"]
            /\ ret' = Nothing
            /\ UNCHANGED <<sdk, issuedBefore>>
  /\ UNCHANGED <<credentials, tokenRefreshPromise, now, waitOn>>

NextFacade ==
  \/ \E c \in Callers : CallInitialize(c)
  \/ \E c \in Callers : \E creds \in SdkCredentials : CallSdkSetCredentials(c, creds)
  \/ \E c \in Callers : CallExchangeCodeForToken(c)
  \/ \E c \in Callers : CallSdkRefreshToken(c)
  \/ \E c \in Callers : CallRevoke(c)
  \/ \E c \in Callers : \E data \in TokenResponses : GrantSucceeds(c, data)
  \/ \E c \in Callers : \E f \in HttpFailures : GrantFails(c, f)
  \/ \E c \in Callers : \E data \in TokenResponses : RefreshSucceeds(c, data)
  \/ \E c \in Callers : \E f \in HttpFailures : RefreshFails(c, f)
  \/ \E c \in Callers : \E o \in RevokeOutcomes : RevokeSettles(c, o)

SpecFacade == InitFacade /\ [][NextFacade]_vars

(* ------------------------------- C27 ----------------------------------- *)
\* C27: whenever no SDK operation is in progress, isInitialized() = true
\* implies that the token store holds credentials.
C27_InitializedHasCredentials ==
  (\A c \in Callers : pc[c] = "idle") /\ sdk.initialized => credentials.present

\* an initialize() has just succeeded with nothing else in progress: the
\* SDK is initialized and the token store holds the granted credentials
C27_Witness ==
  /\ \A c \in Callers : pc[c] = "idle"
  /\ \E c \in Callers :
       ret[c].op = "initialize" /\ ret[c].status = "ok" /\ ret[c].outcome.kind = "ok"
  /\ sdk.initialized
  /\ credentials.present

(***************************************************************************)
(* C28: initialize() is idempotent with respect to the network: between    *)
(* construction (or the last completed revoke) and the next revoke, at     *)
(* most one client-credentials grant issued on behalf of initialize()      *)
(* succeeds, however many callers call initialize() and however their      *)
(* calls interleave.  sdk.initializeGrants counts the succeeded grants of  *)
(* initialize() that were issued since construction or the last revoke.    *)
(***************************************************************************)
C28_OneInitializeGrant == sdk.initializeGrants <= 1

(* ------------------------------- C29 ----------------------------------- *)
\* the environment the AuthService and the resource services were constructed
\* with: the one the constructor derived from its configuration
ServiceEnvironment == getEnvironment(sdk.authConfig.sandbox, sdk.authConfig)

\* C29: a token request issued after a successful updateConfig() uses the
\* updated configuration: its Basic credentials are built from the clientId
\* and clientSecret of the SDK's current configuration, and it is sent to the
\* auth base URL of the SDK's current environment.
C29_RequestsUseUpdatedConfig ==
  [][ \A c \in Callers :
        pc[c] = "idle" /\ pc'[c] = "awaitHttp" /\ op'[c] = "initialize"
          => /\ getBasicAuthHeader(sdk.authConfig) = getBasicAuthHeader(sdk.config)
             /\ ServiceEnvironment.authUrl = sdk.environment.authUrl
    ]_vars

(* ------------------------------- C30 ----------------------------------- *)
\* C30: an existence helper returns true when the request of its lookup gets
\* a 2xx response, returns false when the remote API answers it with HTTP
\* 404, and rethrows the typed error of the lookup for every other failure.
C30_ExistenceHelpers ==
  [][ \A c \in Callers :
        op[c] \in ExistenceHelpers
          => /\ ApiSucceeds(c)
                  => ret'[c].status = "ok" /\ ret'[c].value = "true"
             /\ \A f \in ApiFailures :
                  ApiFails(c, f)
                    => IF f.kind = "http_error" /\ f.status = 404
                         THEN ret'[c].status = "ok" /\ ret'[c].value = "false"
                         ELSE /\ ret'[c].status = "err"
                              /\ ret'[c].error.name \in Taxonomy
    ]_vars

====
